---- MODULE Spec2Model ----
(***************************************************************************)
(* AI-MUD: the Canonical Store (FileSystem), the Orchestration Engine      *)
(* (AIEngine) and the App handlers that drive them.                        *)
(*                                                                         *)
(* Text.  A JavaScript string is a sequence of tokens (Seq(STRING)); the   *)
(* empty string "" is <<>>, concatenation is \o, and a template literal is *)
(* the concatenation of its literal pieces and its interpolated values.    *)
(* A string is falsy exactly when it is <<>>.                              *)
(*                                                                         *)
(* Objects.  A JavaScript object used as a map is a sequence of            *)
(* [k |-> key, v |-> value] entries with distinct keys, in insertion order *)
(* (the order Object.entries / Object.keys iterate in).                    *)
(***************************************************************************)
EXTENDS Integers, Sequences, FiniteSets, TLC

(***************************************************************************)
(* Every record of the model lists its fields, and every set of strings    *)
(* its elements, in the order given here, which is the order TLC keeps     *)
(* them in.                                                                *)
(***************************************************************************)
FieldOrder ==
    [checks |-> 0, content |-> 0, description |-> 0, displayName |-> 0, files |-> 0,
     final |-> 0, found |-> 0, fs |-> 0, gameOver |-> 0, has |-> 0, interior |-> 0,
     json |-> 0, k |-> 0, kind |-> 0, metadata |-> 0, name |-> 0, narrative |-> 0,
     next |-> 0, null |-> 0, ok |-> 0, op |-> 0, outcome |-> 0, present |-> 0,
     prompt |-> 0, quota |-> 0, ref |-> 0, result |-> 0, ret |-> 0, roll |-> 0,
     st |-> 0, stFiles |-> 0, stMeta |-> 0, str |-> 0,
     text |-> 0, thresholds |-> 0, threw |-> 0, type |-> 0, updates |-> 0, v |-> 0, val |-> 0,
     value |-> 0]

\* where a cycle can be
PcStates == {"AWAIT_PRIMARY", "AWAIT_SECONDARY", "COMMIT", "ERROR", "IDLE"}

\* what the record of a cycle notes
EventKinds == {"call", "callFailed", "parseFailed", "parsed"}

\* the kinds of pieces of a response text
PieceKinds == {"close", "doc", "head", "junk", "open", "tail", "ws"}

\* what localStorage.setItem does for the length of a session: the item of
\* the files throws, the item of the metadata throws, or both are stored
Quotas == {"filesFull", "metaFull", "ok"}

\* the calls a FileSystem takes
StoreOps == {"clear", "delete", "determineOutcome", "findFileByReference", "new",
             "parseAIResponse", "read", "write"}

(***************************************************************************)
(* Bounds of the model.                                                    *)
(***************************************************************************)
\* how many actions the player submits in one behaviour
MaxCycles == 2
\* how many times the player opens the reset dialog in one behaviour
MaxResets == 1
\* how many outcomes a threshold map given to determineOutcome names
MaxThresholds == 2
\* how many calls are made on a FileSystem in one behaviour
MaxCalls == 3

\* pieces in a response text handed to parseAIResponse on its own
MaxPieces == 5

\* actions submitted where the end of a cycle is followed up
MaxLiveCycles == 1

(***************************************************************************)
(* JavaScript object helpers.                                              *)
(***************************************************************************)
EmptyObj == <<>>

Keys(m) == {m[i].k : i \in 1..Len(m)}

HasKey(m, key) == \E i \in 1..Len(m) : m[i].k = key

\* m[key] for a key that is present
Get(m, key) == m[CHOOSE i \in 1..Len(m) : m[i].k = key].v

\* m[key] = val : an existing key keeps its position, a new key is appended
Put(m, key, val) ==
    IF HasKey(m, key)
    THEN [i \in 1..Len(m) |-> IF m[i].k = key THEN [k |-> key, v |-> val] ELSE m[i]]
    ELSE Append(m, [k |-> key, v |-> val])

\* delete m[key]
Del(m, key) == SelectSeq(m, LAMBDA e : e.k # key)

\* { ...a, ...b }
RECURSIVE Spread(_, _)
Spread(a, b) ==
    IF b = <<>> THEN a ELSE Spread(Put(a, Head(b).k, Head(b).v), Tail(b))

\* a JavaScript string used as a condition
Truthy(s) == s # <<>>

(***************************************************************************)
(* localStorage: an item is absent (getItem gives null) or holds a string. *)
(* JSON.stringify of a string-valued object is the sequence                *)
(* "{", k1, v1, k2, v2, ..., "}" with every key and value one element;     *)
(* JSON.parse reads the pairs between the braces back.                     *)
(***************************************************************************)
NoItem == [present |-> FALSE, text |-> <<>>]

Item(text) == [present |-> TRUE, text |-> text]

RECURSIVE StringifyEntries(_)
StringifyEntries(m) ==
    IF m = <<>> THEN <<>>
    ELSE <<Head(m).k, Head(m).v>> \o StringifyEntries(Tail(m))

JSONstringify(m) == << <<"{">> >> \o StringifyEntries(m) \o << <<"}">> >>

RECURSIVE ParseEntries(_)
ParseEntries(t) ==
    IF Len(t) < 2 THEN <<>>
    ELSE <<[k |-> t[1], v |-> t[2]]>> \o ParseEntries(SubSeq(t, 3, Len(t)))

JSONparseObj(t) == ParseEntries(SubSeq(t, 2, Len(t) - 1))

\* JSON.parse accepts the text as an object: whole pairs between two braces
Decodable(t) ==
    /\ Len(t) >= 2 /\ Len(t) % 2 = 0
    /\ t[1] = <<"{">> /\ t[Len(t)] = <<"}">>

\* a stored text JSON.parse throws on
Garbled == << <<"{">>, <<"Sword">> >>

(***************************************************************************)
(* FileSystem (src/services/fileSystem.ts).  A store value is the record   *)
(* [files, metadata, quota, stFiles, stMeta]: the two in-memory objects,   *)
(* the two localStorage items and what localStorage.setItem does when it   *)
(* is called (quota).  metadata maps a filename to its displayName.        *)
(***************************************************************************)
TXT == ".txt"

IsDigits(tok) == tok \in {"0", "1", "2", "3", "4", "5", "6", "7", "8", "9"}

IsSpace(tok) == tok = " "

\* filename.replace(/\.txt$/, '')
StripTxt(name) ==
    IF Len(name) > 0 /\ name[Len(name)] = TXT THEN SubSeq(name, 1, Len(name) - 1) ELSE name

\* name.replace(/_/g, ' ')
Underscores(name) == [i \in 1..Len(name) |-> IF name[i] = "_" THEN " " ELSE name[i]]

\* the start of the trailing run of tokens of `name` that satisfy the class
RECURSIVE RunStart(_, _, _)
RunStart(name, i, digits) ==
    IF i >= 1 /\ (IF digits THEN IsDigits(name[i]) ELSE IsSpace(name[i]))
    THEN RunStart(name, i - 1, digits)
    ELSE i + 1

\* name.replace(/\s+\d+$/, '')
StripNumber(name) ==
    LET d == RunStart(name, Len(name), TRUE)
        s == RunStart(name, d - 1, FALSE)
    IN  IF d <= Len(name) /\ s < d THEN SubSeq(name, 1, s - 1) ELSE name

generateDisplayName(filename) == StripNumber(Underscores(StripTxt(filename)))

\* saveToStorage with the second setItem left out
saveToStorage_FilesOnly(fs) ==
    IF fs.quota = "filesFull" THEN fs
    ELSE [fs EXCEPT !.stFiles = Item(JSONstringify(fs.files))]

\* the first setItem that throws ends the try block
saveToStorage(fs) ==
    IF fs.quota = "filesFull" THEN fs
    ELSE IF fs.quota = "metaFull"
    THEN [fs EXCEPT !.stFiles = Item(JSONstringify(fs.files))]
    ELSE [fs EXCEPT !.stFiles = Item(JSONstringify(fs.files)),
                    !.stMeta = Item(JSONstringify(fs.metadata))]

\* saveToStorage with no try / catch around it: a throwing setItem escapes
saveToStorageThrows_Uncaught(fs) == fs.quota # "ok"

\* whether saveToStorage throws to its caller: its catch logs and returns
saveToStorageThrows(fs) == FALSE

\* write deriving the displayName whenever none is given
write_AlwaysDerives(fs, filename, content, displayName) ==
    LET meta == IF Truthy(displayName)
                THEN Put(fs.metadata, filename, displayName)
                ELSE Put(fs.metadata, filename, generateDisplayName(filename))
    IN  saveToStorage([fs EXCEPT !.files = Put(fs.files, filename, content),
                                 !.metadata = meta])

\* write(filename, content, displayName = null); an omitted displayName is <<>>
write(fs, filename, content, displayName) ==
    LET meta == IF Truthy(displayName)
                THEN Put(fs.metadata, filename, displayName)
                ELSE IF ~HasKey(fs.metadata, filename)
                     THEN Put(fs.metadata, filename, generateDisplayName(filename))
                     ELSE fs.metadata
    IN  saveToStorage([fs EXCEPT !.files = Put(fs.files, filename, content),
                                 !.metadata = meta])

\* read(filename): null is <<>> tagged absent
read(fs, filename) ==
    IF HasKey(fs.files, filename) /\ Truthy(Get(fs.files, filename))
    THEN [null |-> FALSE, text |-> Get(fs.files, filename)]
    ELSE [null |-> TRUE, text |-> <<>>]

exists(fs, filename) == HasKey(fs.files, filename)

\* delete that keeps the displayName: only delete this.files[filename]
delete_KeepsAlias(fs, filename) ==
    saveToStorage([fs EXCEPT !.files = Del(fs.files, filename)])

\* delete(filename)
delete(fs, filename) ==
    saveToStorage([fs EXCEPT !.files = Del(fs.files, filename),
                             !.metadata = Del(fs.metadata, filename)])

\* list(): App reads only its length
listLength(fs) == Len(fs.files)

getAll(fs) == fs.files

\* clear with the second removeItem left out
clear_KeepMetaItem(fs) ==
    [files |-> EmptyObj, metadata |-> EmptyObj, quota |-> fs.quota,
     stFiles |-> NoItem, stMeta |-> fs.stMeta]

clear(fs) ==
    [files |-> EmptyObj, metadata |-> EmptyObj, quota |-> fs.quota,
     stFiles |-> NoItem, stMeta |-> NoItem]

\* constructor + loadFromStorage, from the two localStorage items: a
\* JSON.parse that throws ends the try block, and what was assigned stays
loadFromStorage(stFiles, stMeta, quota) ==
    LET filesRead  == stFiles.present /\ Truthy(stFiles.text)
        filesThrow == filesRead /\ ~Decodable(stFiles.text)
        metaRead   == ~filesThrow /\ stMeta.present /\ Truthy(stMeta.text)
        metaThrow  == metaRead /\ ~Decodable(stMeta.text)
    IN  [files    |-> IF filesRead /\ ~filesThrow
                      THEN JSONparseObj(stFiles.text) ELSE EmptyObj,
         metadata |-> IF metaRead /\ ~metaThrow
                      THEN JSONparseObj(stMeta.text) ELSE EmptyObj,
         quota    |-> quota,
         stFiles  |-> stFiles,
         stMeta   |-> stMeta]

\* s.toLowerCase(), token by token
LowerTok(tok) == IF tok = "Guard" THEN "guard" ELSE IF tok = "Sword" THEN "sword" ELSE tok

toLowerCase(s) == [i \in 1..Len(s) |-> LowerTok(s[i])]

\* text.includes(sub), on whole tokens
includes(text, sub) ==
    \E i \in 0..(Len(text) - Len(sub)) : SubSeq(text, i + 1, i + Len(sub)) = sub

\* a filename or null, as findFileByReference returns it
FoundFile(filename) == [null |-> FALSE, text |-> filename]

NoFile == [null |-> TRUE, text |-> <<>>]

\* the first entry a for ... of loop reaches among those in S
FirstOf(S) == CHOOSE i \in S : \A j \in S : i <= j

\* the entries of metadata whose displayName === ref
AliasMatches(fs, ref) == {i \in 1..Len(fs.metadata) : fs.metadata[i].v = ref}

\* the entries of files whose lower-cased name includes the lower-cased ref
PartialMatches(fs, ref) ==
    {i \in 1..Len(fs.files) : includes(toLowerCase(fs.files[i].k), toLowerCase(ref))}

\* findFileByReference with the partial match tried before the display names
findFileByReference_PartialFirst(fs, ref) ==
    IF exists(fs, ref) THEN FoundFile(ref)
    ELSE IF exists(fs, ref \o <<TXT>>) THEN FoundFile(ref \o <<TXT>>)
    ELSE IF PartialMatches(fs, ref) # {}
    THEN FoundFile(fs.files[FirstOf(PartialMatches(fs, ref))].k)
    ELSE IF AliasMatches(fs, ref) # {}
    THEN FoundFile(fs.metadata[FirstOf(AliasMatches(fs, ref))].k)
    ELSE NoFile

findFileByReference(fs, ref) ==
    IF exists(fs, ref) THEN FoundFile(ref)
    ELSE IF exists(fs, ref \o <<TXT>>) THEN FoundFile(ref \o <<TXT>>)
    ELSE IF AliasMatches(fs, ref) # {}
    THEN FoundFile(fs.metadata[FirstOf(AliasMatches(fs, ref))].k)
    ELSE IF PartialMatches(fs, ref) # {}
    THEN FoundFile(fs.files[FirstOf(PartialMatches(fs, ref))].k)
    ELSE NoFile

(***************************************************************************)
(* AIResponse values (src/types.ts).  A decoded JSON value is null or an   *)
(* object; `has` holds the fields the object carries, and a field that is  *)
(* not in `has` holds the empty value of its type.  An entry of `files` is *)
(* a bare string (str) or an object {content, displayName?}; an absent     *)
(* content or displayName is <<>>, which the code treats like "".          *)
(***************************************************************************)
Obj(has, narrative, updates, files, checks, gameOver) ==
    [checks |-> checks, files |-> files, gameOver |-> gameOver, has |-> has,
     json |-> "object", narrative |-> narrative, updates |-> updates]

EmptyResponse == Obj({}, <<>>, <<>>, <<>>, <<>>, FALSE)

JsonNull == [EmptyResponse EXCEPT !.json = "null"]

StrFile(content) == [content |-> content, displayName |-> <<>>, str |-> TRUE]

ObjFile(content, displayName) ==
    [content |-> content, displayName |-> displayName, str |-> FALSE]

(***************************************************************************)
(* The values the backend and the player supply in this model.             *)
(***************************************************************************)
Sword == <<"Sword", TXT>>

Guard == <<"Guard", "_", "1", TXT>>

FileNames == {Sword, Guard}

Stat == [text |-> <<"Health -10">>, type |-> "stat", value |-> -10]

Loot == [text |-> <<"Added Iron Key">>, type |-> "item", value |-> 1]

Climb ==
    [description |-> <<"a steep wall">>, name |-> <<"Climb">>,
     thresholds |-> <<[k |-> <<"Success">>, v |-> 400], [k |-> <<"Failure">>, v |-> 0]>>]

Jump ==
    [description |-> <<"a wide gap">>, name |-> <<"Jump">>,
     thresholds |-> <<[k |-> <<"Success">>, v |-> 500], [k |-> <<"Critical">>, v |-> 900]>>]

\* Math.floor(Math.random() * 1001) ranges over 0 .. RollSides - 1
RollSides == 1001

Rolls == {r \in {200, 600, 950} : r >= 0 /\ r < RollSides}

Plain == Obj({"files", "gameOver", "narrative", "updates"}, <<"You take the sword.">>,
             <<Stat>>, <<[k |-> Sword, v |-> StrFile(<<"x">>)]>>, <<>>, FALSE)

Deadly == Obj({"checks", "files", "gameOver", "narrative", "updates"}, <<>>,
              <<Stat, Loot>>,
              <<[k |-> Sword, v |-> ObjFile(<<"y">>, <<"Blade">>)],
                [k |-> Guard, v |-> StrFile(<<"x">>)]>>,
              <<Climb>>, TRUE)

Risky == Obj({"checks", "files", "narrative", "updates"}, <<"You leap.">>,
             <<Loot>>,
             <<[k |-> Guard, v |-> ObjFile(<<>>, <<>>)],
               [k |-> Sword, v |-> StrFile(<<>>)]>>,
             <<Climb, Jump>>, FALSE)

Asking == Obj({"checks", "narrative"}, <<"You take the sword.">>, <<>>, <<>>, <<Jump>>, FALSE)

Final == Obj({"checks", "files", "gameOver", "narrative", "updates"}, <<"You leap.">>,
             <<>>, <<>>, <<>>, TRUE)

\* UpdateRecords and a narrative, nothing else
Hurt == Obj({"narrative", "updates"}, <<"You are hit.">>, <<Stat>>, <<>>, <<>>, FALSE)

Responses == {EmptyResponse, Plain, Deadly, Risky, Asking, Final, Hurt, JsonNull}

\* a narrative that has three backticks in it (the middle token)
Quoting == Obj({"narrative"}, <<"He carves ", "BACKTICKS", " into the door.">>, <<>>, <<>>, <<>>,
               FALSE)

(***************************************************************************)
(* Backend text.  A response text is a sequence of pieces: the text of one *)
(* complete JSON value (doc), the fence opener ```json (open), a bare ```  *)
(* (close), whitespace (ws), or anything else (junk).  The text of a JSON  *)
(* value with ``` inside one of its strings is three pieces: the text up   *)
(* to the backticks (head), the backticks (close), and the rest (tail).    *)
(***************************************************************************)
Piece(kind, val) == [kind |-> kind, val |-> val]

Doc(val) == Piece("doc", val)

Fence == Piece("open", JsonNull)

Ticks == Piece("close", JsonNull)

Space == Piece("ws", JsonNull)

Junk == Piece("junk", JsonNull)

UpToTicks(val) == Piece("head", val)

PastTicks(val) == Piece("tail", val)

Texts ==
    {<<Doc(r)>> : r \in Responses}
    \cup {<<Junk, Fence, Space, Doc(Asking), Space, Ticks, Junk>>,
          <<Fence, Junk, Ticks>>,
          <<Junk>>,
          <<>>}

PlayerInputs == {<<"look">>}

(***************************************************************************)
(* AIEngine (src/services/aiEngine.ts): the pure parts.                    *)
(***************************************************************************)
Failed == [ok |-> FALSE, val |-> JsonNull]

\* JSON.parse(text): the text must be one JSON value, whitespace aside
JSONparse(text) ==
    LET body == SelectSeq(text, LAMBDA p : p.kind # "ws")
        split == {i \in 1..(Len(text) - 2) :
                    /\ text[i].kind = "head"
                    /\ text[i + 1].kind = "close"
                    /\ text[i + 2].kind = "tail"
                    /\ text[i + 2].val = text[i].val}
    IN  IF Len(body) = 1 /\ body[1].kind = "doc"
        THEN [ok |-> TRUE, val |-> body[1].val]
        ELSE IF Len(body) = 3 /\ split # {}
        THEN [ok |-> TRUE, val |-> body[1].val]
        ELSE Failed

\* text.match(/```json([\s\S]*?)```/): the interior between the first ```json
\* and the first ``` after it (another ```json begins with ``` too)
FenceMatch(text) ==
    LET opens == {i \in 1..Len(text) : text[i].kind = "open"}
    IN  IF opens = {} THEN [found |-> FALSE, interior |-> <<>>]
        ELSE LET i == CHOOSE x \in opens : \A y \in opens : x <= y
                 ends == {j \in (i + 1)..Len(text) : text[j].kind \in {"close", "open"}}
             IN  IF ends = {} THEN [found |-> FALSE, interior |-> <<>>]
                 ELSE LET j == CHOOSE x \in ends : \A y \in ends : x <= y
                      IN  [found |-> TRUE, interior |-> SubSeq(text, i + 1, j - 1)]

\* ok = FALSE stands for the thrown Error
parseAIResponse(text) ==
    IF JSONparse(text).ok THEN JSONparse(text)
    ELSE IF FenceMatch(text).found THEN JSONparse(FenceMatch(text).interior)
    ELSE Failed

\* return response.text || "{}"
callAIText(text) == IF Truthy(text) THEN text ELSE <<Doc(EmptyResponse)>>

\* entries sorted by descending value, equal values keeping their order
RECURSIVE InsertDesc(_, _)
InsertDesc(e, sorted) ==
    IF sorted = <<>> THEN <<e>>
    ELSE IF Head(sorted).v >= e.v THEN <<Head(sorted)>> \o InsertDesc(e, Tail(sorted))
    ELSE <<e>> \o sorted

RECURSIVE SortDesc(_)
SortDesc(entries) ==
    IF entries = <<>> THEN <<>>
    ELSE InsertDesc(entries[Len(entries)], SortDesc(SubSeq(entries, 1, Len(entries) - 1)))

\* determineOutcome without its sort: the first outcome listed that the roll reaches
determineOutcome_FirstListed(roll, thresholds) ==
    LET hits == {i \in 1..Len(thresholds) : roll >= thresholds[i].v}
    IN  IF hits = {} THEN <<"Failure">>
        ELSE thresholds[CHOOSE i \in hits : \A j \in hits : i <= j].k

determineOutcome(roll, thresholds) ==
    LET sorted == SortDesc(thresholds)
        hits == {i \in 1..Len(sorted) : roll >= sorted[i].v}
    IN  IF hits = {} THEN <<"Failure">>
        ELSE sorted[CHOOSE i \in hits : \A j \in hits : i <= j].k

processResponseDataWrite(fs, entry) ==
    IF entry.v.str THEN write(fs, entry.k, entry.v.content, <<>>)
    ELSE IF Truthy(entry.v.content)
         THEN write(fs, entry.k, entry.v.content, entry.v.displayName)
         ELSE fs

RECURSIVE processResponseDataLoop(_, _)
processResponseDataLoop(fs, entries) ==
    IF entries = <<>> THEN fs
    ELSE processResponseDataLoop(processResponseDataWrite(fs, Head(entries)), Tail(entries))

\* processResponseData that also records the first UpdateRecord in a Document
processResponseData_AppliesUpdates(fs, data) ==
    LET wrote == IF "files" \notin data.has THEN fs ELSE processResponseDataLoop(fs, data.files)
    IN  IF "updates" \in data.has /\ Len(data.updates) > 0
        THEN write(wrote, Sword, data.updates[1].text, <<>>)
        ELSE wrote

processResponseData(fs, data) ==
    IF "files" \notin data.has THEN fs ELSE processResponseDataLoop(fs, data.files)

\* const finalResponse = { narrative: "", updates: [], files: {}, gameOver: false }
NewFinalResponse ==
    Obj({"files", "gameOver", "narrative", "updates"}, <<>>, <<>>, <<>>, <<>>, FALSE)

\* StepNarrative without its guard: finalResponse.narrative = stepData.narrative
StepNarrative_Overwrite(final, stepData) == stepData.narrative

StepNarrative(final, stepData) ==
    IF "narrative" \in stepData.has /\ Truthy(stepData.narrative)
    THEN stepData.narrative ELSE final.narrative

\* StepUpdates replacing instead of appending
StepUpdates_Overwrite(final, stepData) ==
    IF "updates" \in stepData.has THEN stepData.updates ELSE final.updates

StepUpdates(final, stepData) ==
    IF "updates" \in stepData.has THEN final.updates \o stepData.updates ELSE final.updates

\* StepFiles with the spread reversed: { ...stepData.files, ...finalResponse.files }
StepFiles_FirstWins(final, stepData) ==
    IF "files" \in stepData.has THEN Spread(stepData.files, final.files) ELSE final.files

StepFiles(final, stepData) ==
    IF "files" \in stepData.has THEN Spread(final.files, stepData.files) ELSE final.files

StepGameOver(final, stepData) ==
    IF "gameOver" \in stepData.has /\ stepData.gameOver THEN TRUE ELSE final.gameOver

\* processStep on an object; eng is [final, fs]
processStep(eng, stepData) ==
    [final |-> [eng.final EXCEPT !.narrative = StepNarrative(eng.final, stepData),
                                 !.updates = StepUpdates(eng.final, stepData),
                                 !.files = StepFiles(eng.final, stepData),
                                 !.gameOver = StepGameOver(eng.final, stepData)],
     fs    |-> processResponseData(eng.fs, stepData)]

\* a write of processResponseData throws (were saveToStorage to throw)
processResponseDataThrows(fs, data) ==
    /\ "files" \in data.has
    /\ \E i \in 1..Len(data.files) : data.files[i].v.str \/ Truthy(data.files[i].v.content)
    /\ saveToStorageThrows(fs)

\* processStep without its guards: spreading an absent updates or reading
\* the entries of an absent files throws a TypeError
processStepThrows_RequiresFields(fs, stepData) ==
    \/ stepData.json = "null"
    \/ "updates" \notin stepData.has
    \/ "files" \notin stepData.has
    \/ processResponseDataThrows(fs, stepData)

\* stepData.narrative on null throws a TypeError
processStepThrows(fs, stepData) ==
    stepData.json = "null" \/ processResponseDataThrows(fs, stepData)

\* data.checks && Array.isArray(data.checks) && data.checks.length > 0
ChecksRequired(data) == "checks" \in data.has /\ Len(data.checks) > 0

CheckResult(check, roll) ==
    [description |-> check.description, name |-> check.name,
     outcome |-> determineOutcome(roll, check.thresholds),
     roll |-> roll, thresholds |-> check.thresholds]

\* data.checks.map(...) with the rolls Math.random gave
CheckResults(checks, rolls) == [i \in 1..Len(checks) |-> CheckResult(checks[i], rolls[i])]

\* parts.join(sep)
RECURSIVE Join(_, _)
Join(parts, sep) ==
    IF parts = <<>> THEN <<>>
    ELSE IF Len(parts) = 1 THEN parts[1]
    ELSE parts[1] \o sep \o Join(Tail(parts), sep)

\* JSON.stringify(r.thresholds)
ThresholdsJSON(thresholds) ==
    <<"{">> \o Join([i \in 1..Len(thresholds) |->
                        thresholds[i].k \o <<":", ToString(thresholds[i].v)>>], <<",">>)
            \o <<"}">>

\* ReportEntry without its "Roll:" line
ReportEntry_NoRoll(r) ==
    <<"Check: ">> \o r.name \o <<"\nReason: ">> \o r.description
    \o <<"\nThresholds: ">>
    \o ThresholdsJSON(r.thresholds) \o <<"\nRESULT: ">> \o r.outcome

ReportEntry(r) ==
    <<"Check: ">> \o r.name \o <<"\nReason: ">> \o r.description
    \o <<"\nRoll: ", ToString(r.roll), " / 1000\nThresholds: ">>
    \o ThresholdsJSON(r.thresholds) \o <<"\nRESULT: ">> \o r.outcome

resultReport(results) ==
    Join([i \in 1..Len(results) |-> ReportEntry(results[i])], <<"\n\n">>)

followUpPrompt(userPrompt, results) ==
    <<"PREVIOUS CONTEXT: ">> \o userPrompt
    \o <<"\n\n[SYSTEM: Probability Checks Completed]\n\n">>
    \o resultReport(results)
    \o <<"\n\nBased on these FAIR and FINAL results, generate the narrative and file updates.">>

\* `=== ${name} ===\n${content}` of one Document
DocBlock(entry) == <<"=== ">> \o entry.k \o <<" ===\n">> \o entry.v

\* Object.entries(files).map(...).join('\n\n')
FileContext(files) == Join([i \in 1..Len(files) |-> DocBlock(files[i])], <<"\n\n">>)

initializePrompt(startingPrompt) == <<"Initialize world: ">> \o startingPrompt

processActionPrompt(fs, action) ==
    <<"Current files:\n">> \o FileContext(getAll(fs))
    \o <<"\n\nPlayer action: ">> \o action
    \o <<"\n\nProcess this action.">>

\* the catch blocks of initialize and processAction, and of the phase-1 parse
Fallback(text) == Obj({"narrative"}, <<text>>, <<>>, <<>>, <<>>, FALSE)

InitializeFailed == Fallback("System initialization failed. Please check API Key.")

ProcessActionFailed == Fallback("Error processing action.")

InvalidFormat == Fallback("System Error: AI returned invalid format.")

\* { ...finalResponse, narrative: finalResponse.narrative + "\n[Error processing check results.]" }
PartialResponse(final) ==
    [final EXCEPT !.narrative = final.narrative \o <<"\n[Error processing check results.]">>]

\* what the catch block of the entry point (initialize or processAction) returns
EntryFailed(ent) == IF ent = "initialize" THEN InitializeFailed ELSE ProcessActionFailed

NoResult == Fallback("")

\* PrimaryOutcome taking an unparsable response for {} instead of returning
PrimaryOutcome_Lenient(final, store, ent, userPrompt, text, rs) ==
    LET parsed == parseAIResponse(callAIText(text))
        data == IF parsed.ok THEN parsed.val ELSE EmptyResponse
        eng == processStep([final |-> final, fs |-> store], data)
    IN  IF processStepThrows(store, data)
        THEN [final |-> final, fs |-> store, next |-> "ERROR", prompt |-> <<>>,
              result |-> EntryFailed(ent)]
        ELSE IF ChecksRequired(data)
        THEN [final |-> eng.final, fs |-> eng.fs, next |-> "AWAIT_SECONDARY",
              prompt |-> followUpPrompt(userPrompt, CheckResults(data.checks, rs)),
              result |-> NoResult]
        ELSE [final |-> eng.final, fs |-> eng.fs, next |-> "COMMIT", prompt |-> <<>>,
              result |-> eng.final]

\* PrimaryOutcome asking the backend again when the response is unparsable
PrimaryOutcome_Retry(final, store, ent, userPrompt, text, rs) ==
    LET parsed == parseAIResponse(callAIText(text))
        data == parsed.val
        eng == processStep([final |-> final, fs |-> store], data)
    IN  IF ~parsed.ok
        THEN [final |-> final, fs |-> store, next |-> "AWAIT_SECONDARY", prompt |-> userPrompt,
              result |-> NoResult]
        ELSE IF processStepThrows(store, data)
        THEN [final |-> final, fs |-> store, next |-> "ERROR", prompt |-> <<>>,
              result |-> EntryFailed(ent)]
        ELSE IF ChecksRequired(data)
        THEN [final |-> eng.final, fs |-> eng.fs, next |-> "AWAIT_SECONDARY",
              prompt |-> followUpPrompt(userPrompt, CheckResults(data.checks, rs)),
              result |-> NoResult]
        ELSE [final |-> eng.final, fs |-> eng.fs, next |-> "COMMIT", prompt |-> <<>>,
              result |-> eng.final]

(***************************************************************************)
(* handleRequest, from the resolution of the primary callAI to its next    *)
(* await or its return.  next is where the cycle goes: AWAIT_SECONDARY     *)
(* (the follow-up call is issued with `prompt`), COMMIT (finalResponse is  *)
(* returned) or ERROR (a fallback narrative is returned).                  *)
(***************************************************************************)
PrimaryOutcome(final, store, ent, userPrompt, text, rs) ==
    LET parsed == parseAIResponse(callAIText(text))
        data == parsed.val
        eng == processStep([final |-> final, fs |-> store], data)
    IN  IF ~parsed.ok
        THEN [final |-> final, fs |-> store, next |-> "ERROR", prompt |-> <<>>,
              result |-> InvalidFormat]
        ELSE IF processStepThrows(store, data)
        THEN [final |-> final, fs |-> store, next |-> "ERROR", prompt |-> <<>>,
              result |-> EntryFailed(ent)]
        ELSE IF ChecksRequired(data)
        THEN [final |-> eng.final, fs |-> eng.fs, next |-> "AWAIT_SECONDARY",
              prompt |-> followUpPrompt(userPrompt, CheckResults(data.checks, rs)),
              result |-> NoResult]
        ELSE [final |-> eng.final, fs |-> eng.fs, next |-> "COMMIT", prompt |-> <<>>,
              result |-> eng.final]

\* SecondaryOutcome discarding phase 1 when the follow-up response is unparsable
SecondaryOutcome_Discard(final, store, text) ==
    LET parsed == parseAIResponse(callAIText(text))
        eng == processStep([final |-> final, fs |-> store], parsed.val)
    IN  IF ~parsed.ok \/ processStepThrows(store, parsed.val)
        THEN [final |-> final, fs |-> store, next |-> "ERROR",
              result |-> Fallback("Error processing check results.")]
        ELSE [final |-> eng.final, fs |-> eng.fs, next |-> "COMMIT", result |-> eng.final]

(***************************************************************************)
(* handleRequest, from the resolution of the follow-up callAI to return.   *)
(* A parse error and a TypeError inside processStep reach the same catch.  *)
(***************************************************************************)
SecondaryOutcome(final, store, text) ==
    LET parsed == parseAIResponse(callAIText(text))
        eng == processStep([final |-> final, fs |-> store], parsed.val)
    IN  IF ~parsed.ok \/ processStepThrows(store, parsed.val)
        THEN [final |-> final, fs |-> store, next |-> "COMMIT",
              result |-> PartialResponse(final)]
        ELSE [final |-> eng.final, fs |-> eng.fs, next |-> "COMMIT", result |-> eng.final]

\* the number of rolls the primary response asks for
RollsNeeded(text) ==
    LET parsed == parseAIResponse(callAIText(text))
    IN  IF parsed.ok /\ ChecksRequired(parsed.val) THEN Len(parsed.val.checks) ELSE 0

\* how a phase ended, for the record of the cycle
PhaseRecord(text) ==
    LET parsed == parseAIResponse(callAIText(text))
    IN  IF parsed.ok THEN [st |-> "parsed", val |-> parsed.val]
        ELSE [st |-> "parseError", val |-> JsonNull]

NoPhase == [st |-> "none", val |-> JsonNull]

CallFailed == [st |-> "callFailed", val |-> JsonNull]

(***************************************************************************)
(* State.                                                                  *)
(*   fs                the FileSystem instance and its localStorage items  *)
(*   isProcessing, isInitialized, gameOver, isResetModalOpen               *)
(*                     the App's useState values that gate the handlers    *)
(*   pc                where the cycle is: IDLE, AWAIT_PRIMARY,            *)
(*                     AWAIT_SECONDARY, COMMIT, ERROR                      *)
(*   entry             the entry point of the cycle (handleAction's branch) *)
(*   prompts           the prompts given to callAI in this cycle, in order *)
(*   finalResponse     handleRequest's accumulator                         *)
(*   result            what initialize / processAction returned            *)
(* and the record of the cycle, which the code does not keep:              *)
(*   phase1, phase2    how each phase ended and what it decoded to         *)
(*   rolls             the rolls drawn for phase 1's checks                *)
(*   events            call / callFailed / parsed / parseFailed, in order  *)
(*   startFs           the store when the cycle began                      *)
(*   resetInCycle      handleReset ran while the cycle was in flight       *)
(*   cycles, resets    how many actions were submitted, how many times the *)
(*                     reset dialog was opened                             *)
(*   sessionActions    how many actions were submitted since startup or    *)
(*                     the last reset                                      *)
(*   sessionFresh      the session began with an empty store or a reset    *)
(* and, where the FileSystem is called directly (StoreSpec):               *)
(*   calls             the calls made on the FileSystem, with what each    *)
(*                     returned, in order                                  *)
(*   before            the store as it was before the last call            *)
(***************************************************************************)
VARIABLES fs, isProcessing, isInitialized, gameOver, isResetModalOpen,
          pc, entry, prompts, finalResponse, result,
          phase1, phase2, rolls, events, startFs, resetInCycle, cycles, resets,
          sessionActions, sessionFresh, calls, before

vars == <<fs, isProcessing, isInitialized, gameOver, isResetModalOpen,
          pc, entry, prompts, finalResponse, result,
          phase1, phase2, rolls, events, startFs, resetInCycle, cycles, resets,
          sessionActions, sessionFresh, calls, before>>

engineVars == <<pc, entry, prompts, finalResponse, result, cycles, resets>>

storeVars == <<calls, before>>

sessionVars == <<sessionActions, sessionFresh>>

appVars == <<isProcessing, isInitialized, gameOver, isResetModalOpen>>

recordVars == <<phase1, phase2, rolls, events, startFs, resetInCycle>>

EmptyStore == clear([files |-> EmptyObj, metadata |-> EmptyObj, quota |-> "ok",
                     stFiles |-> NoItem, stMeta |-> NoItem])

\* what an earlier session may have left in localStorage
SavedWorld == write(write(EmptyStore, Guard, <<"on watch">>, <<"Blade">>), Sword, <<"x">>, <<>>)

StoredWorlds == {EmptyStore, SavedWorld}

\* the App's mount effect and the values its handlers start from
AppInit ==
    /\ isProcessing = FALSE
    /\ isInitialized = (listLength(fs) # 0)
    /\ gameOver = FALSE
    /\ isResetModalOpen = FALSE
    /\ pc = "IDLE"
    /\ entry = "none"
    /\ prompts = <<>>
    /\ finalResponse = NewFinalResponse
    /\ result = NoResult
    /\ phase1 = NoPhase
    /\ phase2 = NoPhase
    /\ rolls = <<>>
    /\ events = <<>>
    /\ startFs = fs
    /\ resetInCycle = FALSE
    /\ cycles = 0
    /\ resets = 0
    /\ sessionActions = 0
    /\ sessionFresh = (listLength(fs) = 0)
    /\ calls = <<>>
    /\ before = fs

\* module load (new FileSystem()) and the App's mount effect
Init ==
    /\ \E w \in StoredWorlds, q \in Quotas : fs = loadFromStorage(w.stFiles, w.stMeta, q)
    /\ AppInit

\* the disabled prop without isProcessing
Disabled_GameOverOnly == gameOver

\* InputArea's disabled prop
\* the disabled prop without gameOver
Disabled_ProcessingOnly == isProcessing

Disabled == isProcessing \/ gameOver

\* InputArea.handleSubmit and App.handleAction up to the first await: the
\* prompt is built and the primary callAI is issued
Submit(text) ==
    /\ ~Disabled
    /\ Truthy(text)
    /\ cycles < MaxCycles
    /\ isProcessing' = TRUE
    /\ entry' = IF ~isInitialized THEN "initialize" ELSE "processAction"
    /\ prompts' = << IF ~isInitialized THEN initializePrompt(text)
                     ELSE processActionPrompt(fs, text) >>
    /\ finalResponse' = NewFinalResponse
    /\ result' = NoResult
    /\ pc' = "AWAIT_PRIMARY"
    /\ phase1' = NoPhase
    /\ phase2' = NoPhase
    /\ rolls' = <<>>
    /\ events' = <<"call">>
    /\ startFs' = fs
    /\ resetInCycle' = FALSE
    /\ cycles' = cycles + 1
    /\ sessionActions' = sessionActions + 1
    /\ UNCHANGED <<storeVars, sessionFresh>>
    /\ UNCHANGED <<fs, isInitialized, gameOver, isResetModalOpen, resets>>

\* the primary callAI resolves with `text`
PrimaryReturns(text) ==
    /\ pc = "AWAIT_PRIMARY"
    /\ \E rs \in [1..RollsNeeded(text) -> Rolls] :
         LET out == PrimaryOutcome(finalResponse, fs, entry, prompts[1], text, rs)
         IN  /\ pc' = out.next
             /\ fs' = out.fs
             /\ finalResponse' = out.final
             /\ result' = out.result
             /\ prompts' = IF out.next = "AWAIT_SECONDARY"
                           THEN Append(prompts, out.prompt) ELSE prompts
             /\ rolls' = rs
             /\ events' = events \o <<IF PhaseRecord(text).st = "parsed"
                                      THEN "parsed" ELSE "parseFailed">>
                                 \o (IF out.next = "AWAIT_SECONDARY"
                                     THEN <<"call">> ELSE <<>>)
    /\ phase1' = PhaseRecord(text)
    /\ UNCHANGED <<storeVars, sessionVars>>
    /\ UNCHANGED <<appVars, entry, phase2, startFs, resetInCycle, cycles, resets>>

\* a callAI rejects: the throw reaches the catch of the entry point
CallFails ==
    /\ pc \in {"AWAIT_PRIMARY", "AWAIT_SECONDARY"}
    /\ pc' = "ERROR"
    /\ result' = EntryFailed(entry)
    /\ phase1' = IF pc = "AWAIT_PRIMARY" THEN CallFailed ELSE phase1
    /\ phase2' = IF pc = "AWAIT_SECONDARY" THEN CallFailed ELSE phase2
    /\ events' = Append(events, "callFailed")
    /\ UNCHANGED <<storeVars, sessionVars>>
    /\ UNCHANGED <<fs, appVars, entry, prompts, finalResponse, rolls, startFs,
                   resetInCycle, cycles, resets>>

\* the follow-up callAI resolves with `text`
SecondaryReturns(text) ==
    /\ pc = "AWAIT_SECONDARY"
    /\ LET out == SecondaryOutcome(finalResponse, fs, text)
       IN  /\ pc' = out.next
           /\ fs' = out.fs
           /\ finalResponse' = out.final
           /\ result' = out.result
    /\ phase2' = PhaseRecord(text)
    /\ events' = Append(events, IF PhaseRecord(text).st = "parsed"
                                THEN "parsed" ELSE "parseFailed")
    /\ UNCHANGED <<storeVars, sessionVars>>
    /\ UNCHANGED <<appVars, entry, prompts, phase1, rolls, startFs, resetInCycle,
                   cycles, resets>>

\* isProcessing cleared only inside `if (result) { ... }` when the result
\* is not an entry point's fallback
IsProcessingAfter_OnlyOnSuccess(res) == res = EntryFailed(entry)

\* setIsProcessing(false), whatever the result
IsProcessingAfter(res) == FALSE

\* App.handleAction after its await: the result is never null
HandleActionResume ==
    /\ pc \in {"COMMIT", "ERROR"}
    /\ isInitialized' = IF entry = "initialize" THEN TRUE ELSE isInitialized
    /\ gameOver' = IF "gameOver" \in result.has /\ result.gameOver THEN TRUE ELSE gameOver
    /\ isProcessing' = IsProcessingAfter(result)
    /\ pc' = "IDLE"
    /\ entry' = "none"
    /\ prompts' = <<>>
    /\ finalResponse' = NewFinalResponse
    /\ result' = NoResult
    /\ phase1' = NoPhase
    /\ phase2' = NoPhase
    /\ rolls' = <<>>
    /\ events' = <<>>
    /\ startFs' = fs
    /\ resetInCycle' = FALSE
    /\ UNCHANGED <<storeVars, sessionVars>>
    /\ UNCHANGED <<fs, isResetModalOpen, cycles, resets>>

\* Sidebar's reset button: onReset
OpenResetModal ==
    /\ pc \notin {"COMMIT", "ERROR"}
    /\ ~isResetModalOpen
    /\ resets < MaxResets
    /\ isResetModalOpen' = TRUE
    /\ resets' = resets + 1
    /\ UNCHANGED <<storeVars, sessionVars>>
    /\ UNCHANGED <<fs, isProcessing, isInitialized, gameOver, pc, entry, prompts,
                   finalResponse, result, recordVars, cycles>>

\* Modal's onCancel
CancelReset ==
    /\ pc \notin {"COMMIT", "ERROR"}
    /\ isResetModalOpen
    /\ isResetModalOpen' = FALSE
    /\ UNCHANGED <<storeVars, sessionVars>>
    /\ UNCHANGED <<fs, isProcessing, isInitialized, gameOver, pc, entry, prompts,
                   finalResponse, result, recordVars, cycles, resets>>

\* Modal's onConfirm: App.handleReset
handleReset ==
    /\ pc \notin {"COMMIT", "ERROR"}
    /\ isResetModalOpen
    /\ fs' = clear(fs)
    /\ gameOver' = FALSE
    /\ isInitialized' = FALSE
    /\ isResetModalOpen' = FALSE
    /\ resetInCycle' = (pc # "IDLE")
    /\ startFs' = IF pc = "IDLE" THEN clear(fs) ELSE startFs
    /\ sessionActions' = 0
    /\ sessionFresh' = TRUE
    /\ UNCHANGED storeVars
    /\ UNCHANGED <<isProcessing, pc, entry, prompts, finalResponse, result,
                   phase1, phase2, rolls, events, cycles, resets>>

Next ==
    \/ \E text \in PlayerInputs : Submit(text)
    \/ \E text \in Texts : PrimaryReturns(text)
    \/ \E text \in Texts : SecondaryReturns(text)
    \/ CallFails
    \/ HandleActionResume
    \/ OpenResetModal
    \/ CancelReset
    \/ handleReset

Spec == Init /\ [][Next]_vars

(***************************************************************************)
(* The App for MaxLiveCycles actions, where every pending backend call is  *)
(* eventually settled and the event loop eventually runs the continuation  *)
(* of handleAction's await.  The backend answers with one text of each     *)
(* kind: an object without checks, an object with checks, JSON null, and   *)
(* text that is not JSON.                                                  *)
(***************************************************************************)
LiveTexts == {<<Doc(Plain)>>, <<Doc(Asking)>>, <<Doc(JsonNull)>>, <<Junk>>}

\* a pending callAI resolves or rejects
BackendResponds ==
    \/ \E text \in LiveTexts : PrimaryReturns(text)
    \/ \E text \in LiveTexts : SecondaryReturns(text)
    \/ CallFails

LiveNext ==
    \/ \E text \in PlayerInputs : cycles < MaxLiveCycles /\ Submit(text)
    \/ BackendResponds
    \/ HandleActionResume
    \/ OpenResetModal
    \/ CancelReset
    \/ handleReset

LiveSpec ==
    Init /\ [][LiveNext]_vars /\ WF_vars(BackendResponds) /\ WF_vars(HandleActionResume)

(***************************************************************************)
(* determineOutcome on its own: every roll Math.random can give, against   *)
(* every threshold map of up to MaxThresholds outcomes over a few labels   *)
(* and minimum rolls.                                                      *)
(***************************************************************************)
Labels == {<<"Critical">>, <<"Failure">>, <<"Success">>}

Levels == {0, 500, 900}

ThresholdEntries == {[k |-> l, v |-> t] : l \in Labels, t \in Levels}

ThresholdMaps ==
    {m \in UNION {[1..n -> ThresholdEntries] : n \in 0..MaxThresholds} :
        \A i, j \in 1..Len(m) : i # j => m[i].k # m[j].k}

AllRolls == 0..(RollSides - 1)

ResolverInit ==
    /\ fs = EmptyStore
    /\ AppInit

\* this.determineOutcome(roll, check.thresholds)
Resolve(roll, thresholds) ==
    /\ calls' = <<[op |-> "determineOutcome", ret |-> determineOutcome(roll, thresholds),
                   roll |-> roll, thresholds |-> thresholds]>>
    /\ UNCHANGED <<fs, appVars, engineVars, recordVars, before, sessionVars>>

\* one call in a behaviour
ResolverNext ==
    /\ calls = <<>>
    /\ \E roll \in AllRolls, thresholds \in ThresholdMaps : Resolve(roll, thresholds)

ResolverSpec == ResolverInit /\ [][ResolverNext]_vars

(***************************************************************************)
(* parseAIResponse on its own: every text of up to MaxPieces pieces.       *)
(***************************************************************************)
ParserPieces == {Doc(Asking), Fence, Ticks, Space, Junk, UpToTicks(Quoting), PastTicks(Quoting)}

ParserTexts == UNION {[1..n -> ParserPieces] : n \in 0..MaxPieces}

ParserInit ==
    /\ fs = EmptyStore
    /\ AppInit

\* this.parseAIResponse(text)
Parse(text) ==
    /\ calls' = <<[op |-> "parseAIResponse", ret |-> parseAIResponse(text), text |-> text]>>
    /\ UNCHANGED <<fs, appVars, engineVars, recordVars, before, sessionVars>>

\* one call in a behaviour
ParserNext ==
    /\ calls = <<>>
    /\ \E text \in ParserTexts : Parse(text)

ParserSpec == ParserInit /\ [][ParserNext]_vars

(***************************************************************************)
(* The FileSystem on its own: a page that starts from what localStorage    *)
(* holds and makes up to MaxCalls calls on the store, a reload (a new      *)
(* FileSystem over the same localStorage) counting as one.                 *)
(***************************************************************************)
StoreContents == {<<>>, <<"x">>, <<"y">>}

\* <<>> is the omitted displayName
DisplayNames == {<<>>, <<"Guard">>}

\* the writes made: any content without a displayName, or "x" with one
StoreWrites ==
    {w \in [content : StoreContents, displayName : DisplayNames, name : FileNames] :
        w.displayName = <<>> \/ w.content = <<"x">>}

References == {<<"Guard">>, <<"guard">>, <<"Sword">>, Sword, <<"Key">>}

\* what a method without a return statement gives
Undefined == [null |-> TRUE, text |-> <<>>]

StoreCall(op, name, content, displayName, ref, ret, threw) ==
    [content |-> content, displayName |-> displayName, name |-> name, op |-> op,
     ref |-> ref, ret |-> ret, threw |-> threw]

\* localStorage whose metadata item, or whose files item, is not JSON
GarbledMeta == [SavedWorld EXCEPT !.stMeta = Item(Garbled)]

GarbledFiles == [SavedWorld EXCEPT !.stFiles = Item(Garbled)]

StoreWorlds == StoredWorlds \cup {GarbledMeta, GarbledFiles}

StoreInit ==
    /\ \E w \in StoreWorlds, q \in Quotas : fs = loadFromStorage(w.stFiles, w.stMeta, q)
    /\ AppInit

StoreWrite(filename, content, displayName) ==
    /\ Len(calls) < MaxCalls
    /\ fs' = write(fs, filename, content, displayName)
    /\ calls' = Append(calls, StoreCall("write", filename, content, displayName, <<>>,
                                        Undefined, saveToStorageThrows(fs)))
    /\ before' = fs
    /\ UNCHANGED <<appVars, engineVars, recordVars, sessionVars>>

StoreRead(filename) ==
    /\ Len(calls) < MaxCalls
    /\ calls' = Append(calls, StoreCall("read", filename, <<>>, <<>>, <<>>,
                                        read(fs, filename), FALSE))
    /\ before' = fs
    /\ UNCHANGED <<fs, appVars, engineVars, recordVars, sessionVars>>

StoreDelete(filename) ==
    /\ Len(calls) < MaxCalls
    /\ fs' = delete(fs, filename)
    /\ calls' = Append(calls, StoreCall("delete", filename, <<>>, <<>>, <<>>,
                                        Undefined, saveToStorageThrows(fs)))
    /\ before' = fs
    /\ UNCHANGED <<appVars, engineVars, recordVars, sessionVars>>

StoreClear ==
    /\ Len(calls) < MaxCalls
    /\ fs' = clear(fs)
    /\ calls' = Append(calls, StoreCall("clear", <<>>, <<>>, <<>>, <<>>, Undefined, FALSE))
    /\ before' = fs
    /\ UNCHANGED <<appVars, engineVars, recordVars, sessionVars>>

StoreFind(ref) ==
    /\ Len(calls) < MaxCalls
    /\ calls' = Append(calls, StoreCall("findFileByReference", <<>>, <<>>, <<>>, ref,
                                        findFileByReference(fs, ref), FALSE))
    /\ before' = fs
    /\ UNCHANGED <<fs, appVars, engineVars, recordVars, sessionVars>>

\* the page is loaded again: new FileSystem() over the same localStorage
StoreNew ==
    /\ Len(calls) < MaxCalls
    /\ fs' = loadFromStorage(fs.stFiles, fs.stMeta, fs.quota)
    /\ calls' = Append(calls, StoreCall("new", <<>>, <<>>, <<>>, <<>>, Undefined, FALSE))
    /\ before' = fs
    /\ UNCHANGED <<appVars, engineVars, recordVars, sessionVars>>

StoreNext ==
    \/ \E w \in StoreWrites : StoreWrite(w.name, w.content, w.displayName)
    \/ \E filename \in FileNames : StoreRead(filename)
    \/ \E filename \in FileNames : StoreDelete(filename)
    \/ StoreClear
    \/ \E ref \in References : StoreFind(ref)
    \/ StoreNew

StoreSpec == StoreInit /\ [][StoreNext]_vars

(***************************************************************************)
(* Vocabulary of the properties.                                           *)
(***************************************************************************)
\* the token sequence sub occurs in text
Occurs(sub, text) ==
    \E i \in 1..(Len(text) - Len(sub) + 1) : SubSeq(text, i, i + Len(sub) - 1) = sub

\* the follow-up prompt has been sent
FollowUpSent == Len(prompts) = 2

\* the outcome labels the rolls rs resolve to for phase 1's checks
Outcomes(rs) ==
    [i \in 1..Len(rs) |-> determineOutcome(rs[i], phase1.val.checks[i].thresholds)]

\* the store as it would be had this cycle written nothing
Baseline ==
    [IF resetInCycle THEN clear(startFs) ELSE startFs EXCEPT !.quota = fs.quota]

\* both phases decoded to a JSON object
BothParsed ==
    /\ phase1.st = "parsed" /\ phase1.val.json = "object"
    /\ phase2.st = "parsed" /\ phase2.val.json = "object"

(***************************************************************************)
(* C1 as stated: the follow-up prompt carries each check's name,           *)
(* rationale, threshold map and resolved outcome label but never the       *)
(* numeric roll, so any other rolls that resolve to the same outcome       *)
(* labels would have produced the same prompt.                             *)
(***************************************************************************)
C1_PromptHidesRoll ==
    FollowUpSent =>
        /\ \A i \in 1..Len(rolls) :
             /\ Occurs(phase1.val.checks[i].name, prompts[2])
             /\ Occurs(phase1.val.checks[i].description, prompts[2])
             /\ Occurs(ThresholdsJSON(phase1.val.checks[i].thresholds), prompts[2])
             /\ Occurs(Outcomes(rolls)[i], prompts[2])
             /\ ~Occurs(<<ToString(rolls[i])>>, prompts[2])
        /\ \A rs \in [1..Len(rolls) -> Rolls] :
             Outcomes(rs) = Outcomes(rolls) =>
                 followUpPrompt(prompts[1], CheckResults(phase1.val.checks, rs)) = prompts[2]

(***************************************************************************)
(* C1 amended: the follow-up prompt carries each check's name, rationale,  *)
(* threshold map, resolved outcome label and its numeric roll              *)
(* ("Roll: <roll> / 1000"), so different rolls give different prompts even *)
(* when they resolve to the same outcome labels.                           *)
(***************************************************************************)
C1_PromptCarriesRoll ==
    FollowUpSent =>
        /\ Len(rolls) = Len(phase1.val.checks)
        /\ \A i \in 1..Len(rolls) :
             /\ Occurs(phase1.val.checks[i].name, prompts[2])
             /\ Occurs(phase1.val.checks[i].description, prompts[2])
             /\ Occurs(ThresholdsJSON(phase1.val.checks[i].thresholds), prompts[2])
             /\ Occurs(Outcomes(rolls)[i], prompts[2])
             /\ Occurs(<<"\nRoll: ", ToString(rolls[i]), " / 1000\nThresholds: ">>, prompts[2])
        /\ \A rs \in [1..Len(rolls) -> Rolls] :
             rs # rolls =>
                 followUpPrompt(prompts[1], CheckResults(phase1.val.checks, rs)) # prompts[2]

\* thresholds {Success:400, Failure:0} with roll 600: the follow-up is sent
C1_Witness ==
    /\ pc = "AWAIT_SECONDARY"
    /\ Len(rolls) >= 1
    /\ phase1.val.checks[1] = Climb
    /\ rolls[1] = 600
    /\ Occurs(<<"Success">>, prompts[2])
    /\ Occurs(<<"600">>, prompts[2])

(***************************************************************************)
(* C2 as stated: when a backend call fails (primary or follow-up), the     *)
(* cycle ends in ERROR with a fallback narrative and the store holds       *)
(* exactly the Documents and contents it held when the cycle began.        *)
(***************************************************************************)
C2_BackendFailureLeavesStore ==
    (phase1.st = "callFailed" \/ phase2.st = "callFailed") =>
        /\ pc = "ERROR"
        /\ result.has = {"narrative"}
        /\ Truthy(result.narrative)
        /\ fs.files = Baseline.files
        /\ fs.metadata = Baseline.metadata

(***************************************************************************)
(* C3: when the phase-1 response cannot be parsed, the cycle ends in       *)
(* ERROR, the caller receives a fallback narrative (and nothing else), the *)
(* backend has been called exactly once, and the store is what it would    *)
(* be without the cycle: no Document created, changed or removed.          *)
(***************************************************************************)
C3_Phase1ParseErrorIsClean ==
    phase1.st = "parseError" =>
        /\ pc = "ERROR"
        /\ result.has = {"narrative"}
        /\ Truthy(result.narrative)
        /\ Len(prompts) = 1
        /\ events = <<"call", "parseFailed">>
        /\ fs = Baseline

\* an unparsable phase-1 response arrived while the store held Documents
C3_Witness ==
    /\ pc = "ERROR"
    /\ phase1.st = "parseError"
    /\ Len(fs.files) = 2
    /\ ~resetInCycle

\* the entries of a response's files that processResponseData writes
Written(files) ==
    {i \in 1..Len(files) : files[i].v.str \/ Truthy(files[i].v.content)}

\* s is t with something appended
ProperPrefix(t, s) == Len(s) > Len(t) /\ SubSeq(s, 1, Len(t)) = t

(***************************************************************************)
(* C4: when phase 1 parsed and requested checks but the phase-2 response   *)
(* cannot be parsed, the cycle reaches COMMIT; the response carries phase  *)
(* 1's narrative with a diagnostic note appended, phase 1's UpdateRecords, *)
(* phase 1's file mutations and phase 1's gameOver flag; and (no reset     *)
(* having intervened) the store holds every Document phase 1 wrote, with   *)
(* the content phase 1 gave it, and every other Document as it was.        *)
(***************************************************************************)
C4_Phase2ParseErrorCommitsPhase1 ==
    (phase1.st = "parsed" /\ phase2.st = "parseError") =>
        /\ pc = "COMMIT"
        /\ Len(phase1.val.checks) > 0
        /\ ProperPrefix(phase1.val.narrative, result.narrative)
        /\ result.updates = phase1.val.updates
        /\ result.files = phase1.val.files
        /\ result.gameOver = phase1.val.gameOver
        /\ {"files", "gameOver", "narrative", "updates"} \subseteq result.has
        /\ ~resetInCycle =>
             /\ \A i \in Written(phase1.val.files) :
                  /\ HasKey(fs.files, phase1.val.files[i].k)
                  /\ Get(fs.files, phase1.val.files[i].k) = phase1.val.files[i].v.content
             /\ \A n \in Keys(fs.files) \cup Keys(startFs.files) :
                  (\A i \in Written(phase1.val.files) : phase1.val.files[i].k # n) =>
                      /\ HasKey(fs.files, n) /\ HasKey(startFs.files, n)
                      /\ Get(fs.files, n) = Get(startFs.files, n)

\* phase 1 wrote Documents and set gameOver, phase 2 was unparsable
C4_Witness ==
    /\ pc = "COMMIT"
    /\ phase1.val = Deadly
    /\ phase2.st = "parseError"
    /\ ~resetInCycle

(***************************************************************************)
(* C5 as stated: when the follow-up prompt is sent, its file context       *)
(* reflects the store after phase 1's writes: every Document of the store  *)
(* appears in it as "=== name ===" followed by its current content.        *)
(***************************************************************************)
C5_FollowUpSeesPhase1Writes ==
    (pc = "AWAIT_SECONDARY" /\ ~resetInCycle) =>
        \A i \in 1..Len(fs.files) : Occurs(DocBlock(fs.files[i]), prompts[2])

(***************************************************************************)
(* C6 as stated: when both phases parse, the returned narrative is phase   *)
(* 2's narrative, whatever phase 1's narrative was.                        *)
(***************************************************************************)
C6_Phase2NarrativeWins ==
    (pc = "COMMIT" /\ BothParsed) => result.narrative = phase2.val.narrative

(***************************************************************************)
(* C6 amended: when both phases decode to a JSON object, the returned      *)
(* narrative is phase 2's narrative if that is non-empty, and phase 1's    *)
(* narrative if phase 2's is empty or absent.                              *)
(***************************************************************************)
C6_NonEmptyPhase2NarrativeWins ==
    (pc = "COMMIT" /\ BothParsed) =>
        result.narrative = IF Truthy(phase2.val.narrative) THEN phase2.val.narrative
                           ELSE phase1.val.narrative

\* both phases carried a narrative, and they differ
C6_Witness ==
    /\ pc = "COMMIT"
    /\ BothParsed
    /\ Truthy(phase1.val.narrative)
    /\ Truthy(phase2.val.narrative)
    /\ phase1.val.narrative # phase2.val.narrative

C9_GameOverMonotone ==
    (pc \in {"COMMIT", "ERROR"} /\ (phase1.val.gameOver \/ phase2.val.gameOver)) =>
        ("gameOver" \in result.has /\ result.gameOver)

\* the number of callAI invocations recorded in the cycle
Calls == Cardinality({i \in 1..Len(events) : events[i] = "call"})

(***************************************************************************)
(* C10: once phase 1 has ended, the follow-up call has been issued iff     *)
(* phase 1 parsed and carries at least one CheckDefinition; the backend is *)
(* invoked at most twice in a cycle; and no call follows a failed call or  *)
(* a failed parse (no retry, no third phase for checks phase 2 returns).   *)
(***************************************************************************)
C10_FollowUpIffChecks ==
    /\ Calls = Len(prompts)
    /\ Calls <= 2
    /\ phase1.st # "none" =>
         (FollowUpSent <=> (phase1.st = "parsed" /\ Len(phase1.val.checks) >= 1))
    /\ \A i \in 1..Len(events) : \A j \in 1..Len(events) :
         (i < j /\ events[i] \in {"callFailed", "parseFailed"}) => events[j] # "call"
    /\ pc \in {"COMMIT", "ERROR"} => events[Len(events)] # "call"

\* phase 2 itself returned checks, and the cycle ended after two calls
C10_Witness ==
    /\ pc = "COMMIT"
    /\ Calls = 2
    /\ phase2.st = "parsed"
    /\ Len(phase2.val.checks) >= 1

(***************************************************************************)
(* C11: for every threshold map and every roll in 0..1000, determineOutcome *)
(* returns one label: that of an outcome whose minimum roll is <= roll and *)
(* is the highest such minimum, or "Failure" when the map is empty or the  *)
(* roll is below every minimum.  With {Success:500, Critical:900}:         *)
(* 501 -> Success, 900 -> Critical, 200 -> Failure.                        *)
(***************************************************************************)
C11_HighestThresholdReached ==
    \A c \in 1..Len(calls) :
        calls[c].op = "determineOutcome" =>
            LET t == calls[c].thresholds
                reached == {i \in 1..Len(t) : t[i].v <= calls[c].roll}
            IN  /\ calls[c].roll \in 0..1000
                /\ reached = {} => calls[c].ret = <<"Failure">>
                /\ reached # {} =>
                      \E i \in reached :
                          /\ calls[c].ret = t[i].k
                          /\ \A j \in reached : t[j].v <= t[i].v
                /\ t = Jump.thresholds =>
                      /\ calls[c].roll = 501 => calls[c].ret = <<"Success">>
                      /\ calls[c].roll = 900 => calls[c].ret = <<"Critical">>
                      /\ calls[c].roll = 200 => calls[c].ret = <<"Failure">>

\* {Success:500, Critical:900} with roll 900: the outcome listed second wins
C11_Witness ==
    /\ Len(calls) = 1
    /\ calls[1].op = "determineOutcome"
    /\ calls[1].thresholds = Jump.thresholds
    /\ calls[1].roll = 900
    /\ calls[1].ret = <<"Critical">>

\* the last call made on the FileSystem, and the one before it
LastCall == calls[Len(calls)]

PrevCall == calls[Len(calls) - 1]

\* the last call is op, the last two calls are op1 then op2
LastIs(op) == Len(calls) >= 1 /\ LastCall.op = op

LastTwoAre(op1, op2) == Len(calls) >= 2 /\ PrevCall.op = op1 /\ LastCall.op = op2

(***************************************************************************)
(* C12: findFileByReference applies its four rules in order, first match   *)
(* wins: the exact name; the name with ".txt" appended; a Document whose   *)
(* displayName is the reference; a name that includes the reference, case  *)
(* aside; else null.  So a reference equal to an existing name resolves to *)
(* that name, and a reference equal to some Document's displayName never   *)
(* resolves through the partial match.                                     *)
(***************************************************************************)
C12_ReferenceRulesInOrder ==
    LastIs("findFileByReference") =>
        LET ref   == LastCall.ref
            ret   == LastCall.ret
            exact == exists(before, ref)
            ext   == exists(before, ref \o <<TXT>>)
            alias == \E n \in Keys(before.metadata) : Get(before.metadata, n) = ref
            part  == \E n \in Keys(before.files) : includes(toLowerCase(n), toLowerCase(ref))
        IN  /\ exact => ret = FoundFile(ref)
            /\ (~exact /\ ext) => ret = FoundFile(ref \o <<TXT>>)
            /\ (~exact /\ ~ext /\ alias) =>
                  /\ ~ret.null
                  /\ HasKey(before.metadata, ret.text)
                  /\ Get(before.metadata, ret.text) = ref
            /\ (~exact /\ ~ext /\ ~alias /\ part) =>
                  /\ ~ret.null
                  /\ HasKey(before.files, ret.text)
                  /\ includes(toLowerCase(ret.text), toLowerCase(ref))
            /\ (~exact /\ ~ext /\ ~alias /\ ~part) => ret = NoFile
            /\ fs = before

\* "Guard" is the displayName of Sword.txt and part of the name Guard_1.txt,
\* which comes first in the store: the reference resolves to Sword.txt
C12_Witness ==
    /\ LastIs("findFileByReference")
    /\ LastCall.ref = <<"Guard">>
    /\ LastCall.ret = FoundFile(Sword)
    /\ PartialMatches(before, <<"Guard">>) # {}
    /\ before.files[FirstOf(PartialMatches(before, <<"Guard">>))].k = Guard

(***************************************************************************)
(* C13 as stated: read(name) right after write(name, content) returns      *)
(* exactly content, for every name and every content string; after two     *)
(* writes to the same name the read returns the content of the second.     *)
(***************************************************************************)
C13_ReadReturnsWritten ==
    (LastTwoAre("write", "read") /\ PrevCall.name = LastCall.name) =>
        LastCall.ret = [null |-> FALSE, text |-> PrevCall.content]

(***************************************************************************)
(* C14: a write without a displayName derives one from the name only when  *)
(* the name has none yet, and otherwise leaves the displayName as it is; a *)
(* write with a displayName sets it; no write touches the displayName of   *)
(* another name; delete removes the displayName, so that a write without   *)
(* displayName right after it derives the displayName afresh.              *)
(***************************************************************************)
C14_AliasDerivedOnlyWhenAbsent ==
    /\ LastIs("write") =>
          LET n == LastCall.name
          IN  /\ HasKey(fs.metadata, n)
              /\ Truthy(LastCall.displayName) =>
                    Get(fs.metadata, n) = LastCall.displayName
              /\ (~Truthy(LastCall.displayName) /\ HasKey(before.metadata, n)) =>
                    Get(fs.metadata, n) = Get(before.metadata, n)
              /\ (~Truthy(LastCall.displayName) /\ ~HasKey(before.metadata, n)) =>
                    Get(fs.metadata, n) = generateDisplayName(n)
              /\ Del(fs.metadata, n) = Del(before.metadata, n)
    /\ LastIs("delete") => ~HasKey(fs.metadata, LastCall.name)
    /\ (LastTwoAre("delete", "write") /\ PrevCall.name = LastCall.name
                                      /\ ~Truthy(LastCall.displayName)) =>
          Get(fs.metadata, LastCall.name) = generateDisplayName(LastCall.name)

\* Sword.txt is given the displayName "Guard", deleted, and written again
\* without a displayName: its displayName is the derived "Sword"
C14_Witness ==
    /\ Len(calls) = 3
    /\ calls[1].op = "write" /\ calls[1].name = Sword /\ calls[1].displayName = <<"Guard">>
    /\ calls[2].op = "delete" /\ calls[2].name = Sword
    /\ calls[3].op = "write" /\ calls[3].name = Sword /\ calls[3].displayName = <<>>
    /\ Get(fs.metadata, Sword) = <<"Sword">>

\* what a FileSystem constructed over the current localStorage would hold
Reloaded == loadFromStorage(fs.stFiles, fs.stMeta, fs.quota)

(***************************************************************************)
(* C15: clear leaves no Document and no displayName in memory and removes  *)
(* both localStorage items, so that a reload finds nothing; it raises no   *)
(* error; and a second clear right after the first changes nothing.        *)
(***************************************************************************)
C15_ClearEmptiesBoth ==
    /\ LastIs("clear") =>
          /\ fs.files = EmptyObj /\ fs.metadata = EmptyObj
          /\ fs.stFiles = NoItem /\ fs.stMeta = NoItem
          /\ Reloaded.files = EmptyObj /\ Reloaded.metadata = EmptyObj
          /\ ~LastCall.threw
    /\ LastTwoAre("clear", "clear") => fs = before

\* a store that held two Documents, in memory and in localStorage, cleared twice
C15_Witness ==
    /\ Len(calls) = 2
    /\ LastTwoAre("clear", "clear")
    /\ Len(startFs.files) = 2
    /\ startFs.stFiles.present /\ startFs.stMeta.present

(***************************************************************************)
(* C16: when localStorage stores what it is given, after every write,      *)
(* delete or clear the persisted state decodes to the in-memory Documents  *)
(* and displayNames, and a FileSystem constructed next (a reload) holds    *)
(* exactly those.                                                          *)
(***************************************************************************)
C16_PersistedEqualsMemory ==
    /\ ((LastIs("write") \/ LastIs("delete") \/ LastIs("clear")) /\ fs.quota = "ok") =>
          /\ Reloaded.files = fs.files
          /\ Reloaded.metadata = fs.metadata
          /\ ~LastIs("clear") =>
                /\ fs.stFiles.present /\ Decodable(fs.stFiles.text)
                /\ fs.stMeta.present /\ Decodable(fs.stMeta.text)
    /\ (Len(calls) >= 2 /\ LastCall.op = "new" /\ fs.quota = "ok"
                        /\ PrevCall.op \in {"clear", "delete", "write"}) =>
          /\ fs.files = before.files
          /\ fs.metadata = before.metadata

\* Sword.txt written with a displayName into a store that held another
\* Document, then the page reloaded: both Documents and displayNames are back
C16_Witness ==
    /\ LastTwoAre("write", "new")
    /\ fs.quota = "ok"
    /\ PrevCall.name = Sword /\ PrevCall.displayName = <<"Guard">>
    /\ Len(fs.files) = 2
    /\ Get(fs.metadata, Sword) = <<"Guard">>

\* a localStorage item JSON.parse throws on
Undecodable(item) == item.present /\ Truthy(item.text) /\ ~Decodable(item.text)

(***************************************************************************)
(* C17 as stated: when loading either localStorage item fails at           *)
(* construction, the store holds no Document and no displayName.           *)
(***************************************************************************)
C17_LoadFailureLeavesStoreEmpty ==
    ((calls = <<>> \/ LastIs("new")) /\ (Undecodable(fs.stFiles) \/ Undecodable(fs.stMeta))) =>
        /\ fs.files = EmptyObj
        /\ fs.metadata = EmptyObj

(***************************************************************************)
(* C18: a localStorage failure while a write or delete persists is         *)
(* swallowed.  No write or delete throws, whatever the quota; the Document *)
(* written is in memory with its content and the Document deleted is gone  *)
(* from memory; a cycle ends in ERROR only for a failed call, an           *)
(* unparsable phase-1 response or a response that decodes to null, never   *)
(* for storage; and at COMMIT (no reset having intervened) every Document  *)
(* the response wrote is in memory with the content the response gave it.  *)
(***************************************************************************)
C18_StorageFailureIsSwallowed ==
    /\ \A n \in FileNames :
          /\ ~saveToStorageThrows(fs)
          /\ ~HasKey(delete(fs, n).files, n)
          /\ \A c \in StoreContents :
                /\ HasKey(write(fs, n, c, <<>>).files, n)
                /\ Get(write(fs, n, c, <<>>).files, n) = c
    /\ pc = "ERROR" =>
          \/ phase1.st \in {"callFailed", "parseError"}
          \/ phase2.st = "callFailed"
          \/ phase1.st = "parsed" /\ phase1.val.json = "null"
    /\ (pc = "COMMIT" /\ ~resetInCycle) =>
          \A i \in Written(result.files) :
              /\ HasKey(fs.files, result.files[i].k)
              /\ Get(fs.files, result.files[i].k) = result.files[i].v.content

\* setItem throws on the files item: the cycle returned its narrative and
\* Sword.txt is in memory while localStorage holds nothing
C18_Witness ==
    /\ pc = "COMMIT"
    /\ fs.quota = "filesFull"
    /\ phase1.val = Plain
    /\ result.narrative = Plain.narrative
    /\ HasKey(fs.files, Sword)
    /\ ~fs.stFiles.present

(***************************************************************************)
(* C19: at most one cycle is in flight.  While a cycle is in flight the    *)
(* App is processing (the input is disabled), and an action is accepted,   *)
(* starting initialize or processAction, only when no cycle is in flight:  *)
(* the one before has reached COMMIT or ERROR and handleAction has resumed. *)
(***************************************************************************)
C19_SingleFlow ==
    /\ [](pc # "IDLE" => (isProcessing /\ Disabled))
    /\ [][cycles' # cycles => (pc = "IDLE" /\ pc' = "AWAIT_PRIMARY")]_vars

\* a cycle awaits its follow-up call; the game is not over and the player
\* could still submit, were the input not disabled by isProcessing
C19_Witness ==
    /\ pc = "AWAIT_SECONDARY"
    /\ isProcessing
    /\ ~gameOver
    /\ cycles < MaxCycles

(***************************************************************************)
(* C20 as stated: in a session that began with an empty store or with a    *)
(* reset, the first action submitted goes to initialize and every later    *)
(* one to processAction, whatever the interleaving of submits, cycle       *)
(* completions and resets.                                                 *)
(***************************************************************************)
C20_InitializeOncePerSession ==
    (pc # "IDLE" /\ ~resetInCycle /\ sessionFresh) =>
        (entry = "initialize" <=> sessionActions = 1)

\* the phase's response carried no file entry (or the phase did not happen)
NoFiles(phase) == phase.val.files = <<>>

(***************************************************************************)
(* C21: UpdateRecords never mutate the store.  While and after a cycle     *)
(* whose responses carry no files, whatever UpdateRecords they carry, the  *)
(* store (Documents, displayNames and their localStorage items) is what it *)
(* would be without the cycle.                                             *)
(***************************************************************************)
C21_UpdatesLeaveStore ==
    (pc # "IDLE" /\ NoFiles(phase1) /\ NoFiles(phase2)) => fs = Baseline

\* two phases without files, the second with an UpdateRecord, over a store
\* that holds two Documents
C21_Witness ==
    /\ pc = "COMMIT"
    /\ phase1.val = Asking
    /\ phase2.val = Hurt
    /\ result.updates = <<Stat>>
    /\ Len(fs.files) = 2
    /\ ~resetInCycle

Wrapped(text) ==
    /\ Len(text) >= 2
    /\ text[1] = Fence
    /\ text[Len(text)] = Ticks

Unwrapped(text) == SubSeq(text, 2, Len(text) - 1)

C23_ParseTwoAttempts ==
    \A i \in 1..Len(calls) :
        calls[i].op = "parseAIResponse" =>
            LET text == calls[i].text
                ret == calls[i].ret
                direct == JSONparse(text)
                match == FenceMatch(text)
            IN  /\ direct.ok => ret = direct
                /\ (~direct.ok /\ match.found) => ret = JSONparse(match.interior)
                /\ ~ret.ok <=>
                      (~direct.ok /\ (~match.found \/ ~JSONparse(match.interior).ok))
                /\ (Wrapped(text) /\ JSONparse(Unwrapped(text)).ok) =>
                      ret = JSONparse(Unwrapped(text))

(***************************************************************************)
(* C24: at COMMIT, with no reset since the cycle began, every filename in  *)
(* the response's files is in the store and read returns the content the   *)
(* response entry carries (the string, or the entry's content field).      *)
(***************************************************************************)
C24_ResponseFilesAreStored ==
    (pc = "COMMIT" /\ ~resetInCycle) =>
        \A i \in 1..Len(result.files) :
            /\ exists(fs, result.files[i].k)
            /\ read(fs, result.files[i].k) =
                  [null |-> FALSE, text |-> result.files[i].v.content]

\* the store began with nothing in memory and has not been constructed anew
FromEmpty ==
    /\ startFs.files = EmptyObj
    /\ startFs.metadata = EmptyObj
    /\ \A i \in 1..Len(calls) : calls[i].op # "new"

(***************************************************************************)
(* C25: from an empty store, after any writes, deletes and clears, the     *)
(* names with a displayName are the names with content, each once; delete  *)
(* removes both for its name, raises nothing, and changes nothing in       *)
(* memory when the name is absent; and a name findFileByReference returns  *)
(* is a name for which exists is true.                                     *)
(***************************************************************************)
C25_AliasIffContent ==
    FromEmpty =>
        /\ Keys(fs.metadata) = Keys(fs.files)
        /\ Cardinality(Keys(fs.metadata)) = Len(fs.metadata)
        /\ Cardinality(Keys(fs.files)) = Len(fs.files)
        /\ LastIs("delete") =>
              /\ ~exists(fs, LastCall.name)
              /\ ~HasKey(fs.metadata, LastCall.name)
              /\ ~LastCall.threw
              /\ ~exists(before, LastCall.name) =>
                    (fs.files = before.files /\ fs.metadata = before.metadata)
        /\ (LastIs("findFileByReference") /\ ~LastCall.ret.null) =>
              exists(fs, LastCall.ret.text)

\* Sword.txt is written with the displayName "Guard" and deleted: the
\* reference "Guard" then resolves to nothing
C25_Witness ==
    /\ FromEmpty
    /\ Len(calls) = 3
    /\ calls[1].op = "write" /\ calls[1].name = Sword /\ calls[1].displayName = <<"Guard">>
    /\ calls[2].op = "delete" /\ calls[2].name = Sword
    /\ calls[3].op = "findFileByReference" /\ calls[3].ref = <<"Guard">>
    /\ calls[3].ret = NoFile
    /\ fs.files = EmptyObj /\ fs.metadata = EmptyObj

(***************************************************************************)
(* C26: from a reset until the next action is submitted the store holds no *)
(* Document and no displayName and the session is uninitialized, whether   *)
(* or not a cycle was in flight when the reset was confirmed.  (A page     *)
(* loaded over an empty store begins the same way.)                        *)
(***************************************************************************)
C26_ResetLeavesNothing ==
    (sessionFresh /\ sessionActions = 0) =>
        /\ fs.files = EmptyObj
        /\ fs.metadata = EmptyObj
        /\ ~isInitialized

(***************************************************************************)
(* C27: when handleAction takes up a response whose gameOver is true, the  *)
(* App's gameOver becomes true; while it is true no cycle is in flight and *)
(* no step starts one (neither initialize nor processAction is invoked, no *)
(* backend call is made); and the only step that makes it false again is   *)
(* the confirmed reset, which clears the store.                            *)
(***************************************************************************)
C27_GameOverBlocksSubmit ==
    [][/\ (pc = "COMMIT" /\ result.gameOver /\ pc' = "IDLE") => gameOver'
       /\ gameOver =>
             (pc = "IDLE" /\ pc' = "IDLE" /\ cycles' = cycles /\ events' = events)
       /\ (gameOver /\ ~gameOver') =>
             (isResetModalOpen /\ ~isResetModalOpen' /\ fs' = clear(fs)
                               /\ ~isInitialized')]_vars

\* the game is over after a cycle, nothing is in flight, and submits remain
C27_Witness ==
    /\ gameOver
    /\ pc = "IDLE"
    /\ ~isProcessing
    /\ ~isResetModalOpen
    /\ cycles = 1
    /\ Len(fs.files) > 0

(***************************************************************************)
(* C28: if every backend call is eventually settled, a cycle that awaits   *)
(* the backend, in phase 1 or in phase 2, eventually ends in COMMIT or     *)
(* ERROR, and isProcessing, once true, eventually is false again.          *)
(***************************************************************************)
C28_CycleEnds ==
    /\ (pc \in {"AWAIT_PRIMARY", "AWAIT_SECONDARY"}) ~> (pc \in {"COMMIT", "ERROR"})
    /\ isProcessing ~> ~isProcessing

\* the follow-up call failed and the cycle ended in ERROR
C28_Witness ==
    /\ pc = "ERROR"
    /\ phase1.st = "parsed"
    /\ phase2.st = "callFailed"
    /\ isProcessing
    /\ result = EntryFailed(entry)

====
